---- MODULE Spec2Model ----
(***************************************************************************)
(* Model of the JSON API Analyzer (api-analyzer/src/App.tsx): the analyze  *)
(* request pipeline of App and the TreeNode expand/collapse state.         *)
(*                                                                         *)
(* Text is a sequence of one-character strings.  JavaScript values are     *)
(* tagged records: [t |-> "null"], [t |-> "num", v |-> n],                 *)
(* [t |-> "str", v |-> text], [t |-> "arr", v |-> <<values>>],             *)
(* [t |-> "obj", v |-> <<[k |-> text, v |-> value], ...>>] (the members in *)
(* Object.entries order), [t |-> "bool", v |-> b], [t |-> "nan"].          *)
(***************************************************************************)
EXTENDS Integers, Sequences, FiniteSets, TLC

\* url, loading, result, timeoutMs, method: the state of App.
\* controllerRef: the invocation whose AbortController the ref holds, 0 for null.
\* inv: the invocations of analyze in the order they started, each with its
\*      closure (url, method, timeoutMs), AbortController, timer and position.
\* writer: the invocation whose setResult call wrote result, 0 for none.
\* tree: the open flag of every mounted TreeNode, by its path of keys.
\* props: the level and collapsed props of the root TreeNode.
VARIABLES url, loading, result, timeoutMs, method, controllerRef, inv, writer, tree,
          props

vars == <<url, loading, result, timeoutMs, method, controllerRef, inv, writer, tree,
          props>>

(***************************************************************************)
(* Bounds of the model.                                                    *)
(***************************************************************************)
MaxInvocations == 2
MaxBodyLen == 2
MaxHeaderLen == 1

(***************************************************************************)
(* JavaScript values.                                                      *)
(***************************************************************************)
Null == [t |-> "null"]
NaN == [t |-> "nan"]
Num(n) == [t |-> "num", v |-> n]
Bool(b) == [t |-> "bool", v |-> b]
Str(s) == [t |-> "str", v |-> s]
Arr(s) == [t |-> "arr", v |-> s]
Obj(s) == [t |-> "obj", v |-> s]

(***************************************************************************)
(* Text.                                                                   *)
(***************************************************************************)
Digits == {"0", "1", "2", "3", "4", "5", "6", "7", "8", "9"}

DigitVal(c) ==
  CASE c = "0" -> 0 [] c = "1" -> 1 [] c = "2" -> 2 [] c = "3" -> 3
    [] c = "4" -> 4 [] c = "5" -> 5 [] c = "6" -> 6 [] c = "7" -> 7
    [] c = "8" -> 8 [] c = "9" -> 9

DigitChar(d) ==
  CASE d = 0 -> "0" [] d = 1 -> "1" [] d = 2 -> "2" [] d = 3 -> "3"
    [] d = 4 -> "4" [] d = 5 -> "5" [] d = 6 -> "6" [] d = 7 -> "7"
    [] d = 8 -> "8" [] d = 9 -> "9"

\* All texts over the alphabet A of length at most n.
TextsUpTo(A, n) == UNION {[1..k -> A] : k \in 0..n}

\* `${n}` and String(n) for a non-negative integer n.
RECURSIVE NumberToString(_)
NumberToString(n) ==
  IF n < 10 THEN <<DigitChar(n)>>
  ELSE Append(NumberToString(n \div 10), DigitChar(n % 10))

\* The value of a text of decimal digits (leading zeros allowed).
RECURSIVE DecimalValue(_)
DecimalValue(s) ==
  IF s = <<>> THEN 0
  ELSE 10 * DecimalValue(SubSeq(s, 1, Len(s) - 1)) + DigitVal(s[Len(s)])

\* Number(v) for an optional header value: undefined gives NaN, the empty
\* text 0, a text of decimal digits its value, any other text of the
\* model's alphabet (digits and letters) NaN.
ToNumber(v) ==
  IF v = Null THEN NaN
  ELSE IF \A i \in 1..Len(v.v) : v.v[i] \in Digits THEN Num(DecimalValue(v.v))
  ELSE NaN

\* String.prototype.toLowerCase on the letters of the model.
LowerChar(c) ==
  CASE c = "J" -> "j" [] c = "S" -> "s" [] c = "O" -> "o" [] c = "N" -> "n"
    [] OTHER -> c

toLowerCase(s) == [i \in 1..Len(s) |-> LowerChar(s[i])]

\* String.prototype.includes.
includes(s, sub) ==
  \E i \in 1..(Len(s) - Len(sub) + 1) : SubSeq(s, i, i + Len(sub) - 1) = sub

IsSpace(c) == c = " "

\* String.prototype.trim.
RECURSIVE trim(_)
trim(s) ==
  IF s = <<>> THEN s
  ELSE IF IsSpace(s[1]) THEN trim(Tail(s))
  ELSE IF IsSpace(s[Len(s)]) THEN trim(SubSeq(s, 1, Len(s) - 1))
  ELSE s

\* Bytes of one character in UTF-8.
Utf8Bytes(c) ==
  CASE c = "é" -> 2
    [] c = "€" -> 3
    [] OTHER -> 1

\* new TextEncoder().encode(s).length
RECURSIVE Utf8Length(_)
Utf8Length(s) == IF s = <<>> THEN 0 ELSE Utf8Bytes(Head(s)) + Utf8Length(Tail(s))

(***************************************************************************)
(* JSON.parse on the characters of the model: [ ] { } , : " \ space,       *)
(* decimal digits, the letters a c k é €, and the words true, false and    *)
(* null, whose other letters appear nowhere else.  Without "-", "." and    *)
(* an exponent a number is 0 or a digit 1-9 followed by digits; no         *)
(* backslash is followed by a letter, so the only escapes are \" and \\.   *)
(***************************************************************************)
WordTrue == <<"t", "r", "u", "e">>
WordFalse == <<"f", "a", "l", "s", "e">>
WordNull == <<"n", "u", "l", "l">>

\* The text s has the word at position i.
HasWord(s, i, word) ==
  /\ i + Len(word) - 1 <= Len(s)
  /\ SubSeq(s, i, i + Len(word) - 1) = word

Fail(msg) == [ok |-> FALSE, message |-> msg]
Ok(v, p) == [ok |-> TRUE, val |-> v, pos |-> p]

UnexpectedEnd == <<"Unexpected end of JSON input">>
UnexpectedToken == <<"Unexpected token in JSON">>

RECURSIVE SkipWs(_, _)
SkipWs(s, i) == IF i <= Len(s) /\ IsSpace(s[i]) THEN SkipWs(s, i + 1) ELSE i

RECURSIVE DigitsEnd(_, _)
DigitsEnd(s, i) == IF i <= Len(s) /\ s[i] \in Digits THEN DigitsEnd(s, i + 1) ELSE i

\* The characters of a string literal whose opening quote precedes s[i].
RECURSIVE ParseString(_, _, _)
ParseString(s, i, acc) ==
  IF i > Len(s) THEN Fail(UnexpectedEnd)
  ELSE IF s[i] = "\"" THEN Ok(Str(acc), i + 1)
  ELSE IF s[i] = "\\" THEN
    IF i + 1 > Len(s) THEN Fail(UnexpectedEnd)
    ELSE IF s[i + 1] \in {"\"", "\\"} THEN ParseString(s, i + 2, Append(acc, s[i + 1]))
    ELSE Fail(UnexpectedToken)
  ELSE ParseString(s, i + 1, Append(acc, s[i]))

\* A key that is a canonical array index: Object.entries lists these first,
\* in ascending numeric order, before the other keys in insertion order.
IsIndexKey(k) ==
  /\ k # <<>>
  /\ \A i \in 1..Len(k) : k[i] \in Digits
  /\ (k[1] = "0" => Len(k) = 1)

\* obj[k] = v on the members of an object.
SetMember(ms, k, v) ==
  IF \E i \in 1..Len(ms) : ms[i].k = k
  THEN [i \in 1..Len(ms) |-> IF ms[i].k = k THEN [k |-> k, v |-> v] ELSE ms[i]]
  ELSE IF IsIndexKey(k)
  THEN LET before == {i \in 1..Len(ms) :
                        IsIndexKey(ms[i].k) /\ DecimalValue(ms[i].k) < DecimalValue(k)}
           n == Cardinality(before)
       IN SubSeq(ms, 1, n) \o <<[k |-> k, v |-> v]>> \o SubSeq(ms, n + 1, Len(ms))
  ELSE Append(ms, [k |-> k, v |-> v])

RECURSIVE ParseValue(_, _)
RECURSIVE ParseElements(_, _, _)
RECURSIVE ParseMembers(_, _, _)

ParseValue(s, i0) ==
  LET i == SkipWs(s, i0) IN
  IF i > Len(s) THEN Fail(UnexpectedEnd)
  ELSE IF s[i] = "[" THEN
    LET j == SkipWs(s, i + 1) IN
    IF j <= Len(s) /\ s[j] = "]" THEN Ok(Arr(<<>>), j + 1)
    ELSE ParseElements(s, j, <<>>)
  ELSE IF s[i] = "{" THEN
    LET j == SkipWs(s, i + 1) IN
    IF j <= Len(s) /\ s[j] = "}" THEN Ok(Obj(<<>>), j + 1)
    ELSE ParseMembers(s, j, <<>>)
  ELSE IF s[i] = "\"" THEN ParseString(s, i + 1, <<>>)
  ELSE IF s[i] = "0" THEN Ok(Num(0), i + 1)
  ELSE IF s[i] \in Digits THEN
    LET j == DigitsEnd(s, i) IN Ok(Num(DecimalValue(SubSeq(s, i, j - 1))), j)
  ELSE IF HasWord(s, i, WordTrue) THEN Ok(Bool(TRUE), i + Len(WordTrue))
  ELSE IF HasWord(s, i, WordFalse) THEN Ok(Bool(FALSE), i + Len(WordFalse))
  ELSE IF HasWord(s, i, WordNull) THEN Ok(Null, i + Len(WordNull))
  ELSE Fail(UnexpectedToken)

ParseElements(s, i, acc) ==
  LET r == ParseValue(s, i) IN
  IF ~r.ok THEN r
  ELSE LET j == SkipWs(s, r.pos) IN
       IF j > Len(s) THEN Fail(UnexpectedEnd)
       ELSE IF s[j] = "," THEN ParseElements(s, j + 1, Append(acc, r.val))
       ELSE IF s[j] = "]" THEN Ok(Arr(Append(acc, r.val)), j + 1)
       ELSE Fail(UnexpectedToken)

ParseMembers(s, i0, acc) ==
  LET i == SkipWs(s, i0) IN
  IF i > Len(s) THEN Fail(UnexpectedEnd)
  ELSE IF s[i] # "\"" THEN Fail(UnexpectedToken)
  ELSE LET key == ParseString(s, i + 1, <<>>) IN
       IF ~key.ok THEN key
       ELSE LET c == SkipWs(s, key.pos) IN
            IF c > Len(s) THEN Fail(UnexpectedEnd)
            ELSE IF s[c] # ":" THEN Fail(UnexpectedToken)
            ELSE LET r == ParseValue(s, c + 1) IN
                 IF ~r.ok THEN r
                 ELSE LET j == SkipWs(s, r.pos)
                          ms == SetMember(acc, key.val.v, r.val)
                      IN IF j > Len(s) THEN Fail(UnexpectedEnd)
                         ELSE IF s[j] = "," THEN ParseMembers(s, j + 1, ms)
                         ELSE IF s[j] = "}" THEN Ok(Obj(ms), j + 1)
                         ELSE Fail(UnexpectedToken)

\* JSON.parse(text): [ok |-> TRUE, val |-> value] or, for the SyntaxError it
\* throws, [ok |-> FALSE, message |-> text].
JSONParse(s) ==
  LET r == ParseValue(s, 1) IN
  IF ~r.ok THEN r
  ELSE IF SkipWs(s, r.pos) <= Len(s) THEN Fail(UnexpectedToken)
  ELSE r

(***************************************************************************)
(* The inputs of the model: what the user can type and what the network    *)
(* can deliver.                                                            *)
(***************************************************************************)
InitialUrl ==
  <<"P", "a", "s", "t", "e", " ", "y", "o", "u", "r", " ", "A", "P", "I", " ",
    "h", "e", "r", "e">>

\* What the user can type into the URL input: nothing, blanks, a URL.
UrlInputs == {<<>>, <<" ">>, <<" ", "h">>}

\* The value of the number input: empty or a decimal number.
TimeoutInputs == {<<>>, <<"2", "0", "0", "0">>}

Methods == {"GET", "HEAD"}

Statuses == {200, 299, 300, 404}
StatusTexts == {<<>>, <<"N", "o", "t", " ", "F", "o", "u", "n", "d">>}
ElapsedValues == {7}

JsonType == <<"j", "s", "o", "n">>
ContentTypes == {JsonType, <<"a", "/", "J", "S", "O", "N", ";">>, <<"t", "e", "x", "t">>, <<"j", "s">>}
LengthChars == {"0", "7", "a"}
ContentLengths == TextsUpTo(LengthChars, MaxHeaderLen) \cup {<<"1", "0", "2", "4">>}
Dates == {<<"d">>}

\* A value or undefined.
Optional(S) == {Null} \cup {Str(x) : x \in S}

\* The header mappings: functions from some of the (lower-case) names to texts.
HeaderMaps(types, lengths, dates) ==
  {[n \in {m \in DOMAIN h : h[m] # Null} |-> h[n].v] :
     h \in {("content-type" :> t) @@ ("content-length" :> l) @@ ("date" :> d) :
              t \in Optional(types), l \in Optional(lengths), d \in Optional(dates)}}

BodyChars == {"[", "]", "1", "\"", "é", " "}

DocObject ==
  <<"{", "\"", "a", "\"", ":", "1", ",", "\"", "k", "\"", ":", "{", "\"", "c",
    "\"", ":", "2", "}", "}">>
DocArray ==
  <<"[", "[", "[", "1", "]", ",", "[", "]", "]", ",", "[", "1", "0", "]", "]">>
DocBroken == <<"{", "a">>
DocText == <<"a", "€">>
\* [true,false,null,"\"","\\"]
DocScalars ==
  <<"[", "t", "r", "u", "e", ",", "f", "a", "l", "s", "e", ",", "n", "u", "l", "l",
    ",", "\"", "\\", "\"", "\"", ",", "\"", "\\", "\\", "\"", "]">>

SampleBodies == {DocObject, DocArray, DocBroken, DocText, DocScalars}
Bodies == TextsUpTo(BodyChars, MaxBodyLen) \cup SampleBodies

\* What fetch can resolve with: status line, headers, and the clock reading
\* performance.now() - started at that moment.
Responses(statuses, texts, maps) ==
  [status : statuses, statusText : texts, headers : maps, elapsed : ElapsedValues]

AllResponses ==
  Responses(Statuses, StatusTexts, HeaderMaps(ContentTypes, ContentLengths, Dates))

AppResponses ==
  Responses({200, 404}, {<<>>},
            HeaderMaps({JsonType, <<"t", "e", "x", "t">>}, {<<"1", "0", "2", "4">>}, {}))

AppBodies == SampleBodies \cup {<<>>}

\* What fetch and resp.text() can reject with, other than an abort.
NetworkErrors == {[name |-> "TypeError", message |-> <<"Failed to fetch">>]}
AbortError == [name |-> "AbortError", message |-> <<"The operation was aborted.">>]

(***************************************************************************)
(* analyze: from the response to the result (App.tsx lines 137-190).       *)
(***************************************************************************)
\* headers[name], undefined as Null.
Header(headers, name) ==
  IF name \in DOMAIN headers THEN Str(headers[name]) ELSE Null

\* resp.ok
RespOk(status) == status >= 200 /\ status <= 299

\* The size measured on the body first, the header only for an empty body.
SizeBytes_BodyFirst(headers, rawText) ==
  LET fromHeader == ToNumber(Header(headers, "content-length")) IN
  IF rawText # <<>> THEN Num(Utf8Length(rawText))
  ELSE IF fromHeader # NaN /\ fromHeader.v > 0 THEN fromHeader
  ELSE Null

\* sizeBytes (lines 142-148).
SizeBytes(headers, rawText) ==
  LET fromHeader == ToNumber(Header(headers, "content-length")) IN
  IF fromHeader # NaN /\ fromHeader.v > 0 THEN fromHeader
  ELSE IF rawText # <<>> THEN Num(Utf8Length(rawText))
  ELSE Null

\* headers["content-type"]?.toLowerCase().includes("json")
DeclaresJson(headers) ==
  /\ "content-type" \in DOMAIN headers
  /\ includes(toLowerCase(headers["content-type"]), JsonType)

\* The strict branch falling back to the raw text like the lenient one.
StrictParse_FallsBack(r) ==
  IF r.ok THEN [parsed |-> r.val, parseErr |-> Null]
  ELSE [parsed |-> Null, parseErr |-> Null]

\* The strict branch (lines 154-158) for r = JSON.parse(rawText).
StrictParse(r) ==
  IF r.ok THEN [parsed |-> r.val, parseErr |-> Null]
  ELSE [parsed |-> Null, parseErr |-> Str(r.message)]

\* The lenient branch recording the error like the strict one.
LenientParse_RecordsError(r, rawText) ==
  IF r.ok THEN [parsed |-> r.val, parseErr |-> Null]
  ELSE [parsed |-> Null, parseErr |-> Str(r.message)]

\* The lenient branch (lines 160-164) for r = JSON.parse(rawText).
LenientParse(r, rawText) ==
  IF r.ok THEN [parsed |-> r.val, parseErr |-> Null]
  ELSE [parsed |-> Str(rawText), parseErr |-> Null]

\* Parsing only what declares JSON: any other body is kept as text.
ParseBody_OnlyDeclaredJson(headers, rawText) ==
  IF rawText # <<>> /\ DeclaresJson(headers) THEN StrictParse(JSONParse(rawText))
  ELSE IF rawText # <<>> THEN [parsed |-> Str(rawText), parseErr |-> Null]
  ELSE [parsed |-> Null, parseErr |-> Null]

\* The pair (parsed, parseErr) of lines 150-165.
ParseBody(headers, rawText) ==
  IF rawText # <<>> /\ DeclaresJson(headers) THEN StrictParse(JSONParse(rawText))
  ELSE IF rawText # <<>> THEN LenientParse(JSONParse(rawText), rawText)
  ELSE [parsed |-> Null, parseErr |-> Null]

\* summary (lines 167-176).
Summary(f, resp, rawText) ==
  [url |-> f.url,
   method |-> f.method,
   status |-> resp.status,
   statusText |-> IF resp.statusText # <<>> THEN resp.statusText
                  ELSE IF RespOk(resp.status) THEN <<"OK">> ELSE <<"Error">>,
   timeMs |-> resp.elapsed,
   contentType |-> Header(resp.headers, "content-type"),
   sizeBytes |-> SizeBytes(resp.headers, rawText),
   date |-> Header(resp.headers, "date")]

\* Outcome selection testing the parse error before the status.
SelectOutcome_ParseErrorFirst(resp, rawText, p, summary) ==
  IF p.parseErr # Null /\ p.parseErr.v # <<>> THEN
    [exit |-> "parse",
     result |-> [ok |-> FALSE, summary |-> summary, headers |-> resp.headers,
                 error |-> <<"Response is not valid JSON: ">> \o p.parseErr.v,
                 rawText |-> rawText]]
  ELSE IF ~RespOk(resp.status) THEN
    [exit |-> "status",
     result |-> [ok |-> FALSE, summary |-> summary, headers |-> resp.headers,
                 error |-> <<"Request failed with status ">> \o NumberToString(resp.status),
                 rawText |-> rawText]]
  ELSE
    [exit |-> "success",
     result |-> [ok |-> TRUE, summary |-> summary, headers |-> resp.headers,
                 data |-> p.parsed, rawText |-> rawText]]

\* Outcome selection (lines 180-190): the result and the exit taken.
SelectOutcome(resp, rawText, p, summary) ==
  IF ~RespOk(resp.status) THEN
    [exit |-> "status",
     result |-> [ok |-> FALSE, summary |-> summary, headers |-> resp.headers,
                 error |-> <<"Request failed with status ">> \o NumberToString(resp.status),
                 rawText |-> rawText]]
  ELSE IF p.parseErr # Null /\ p.parseErr.v # <<>> THEN
    [exit |-> "parse",
     result |-> [ok |-> FALSE, summary |-> summary, headers |-> resp.headers,
                 error |-> <<"Response is not valid JSON: ">> \o p.parseErr.v,
                 rawText |-> rawText]]
  ELSE
    [exit |-> "success",
     result |-> [ok |-> TRUE, summary |-> summary, headers |-> resp.headers,
                 data |-> p.parsed, rawText |-> rawText]]

\* Lines 142-190 for the closure f, the response and the body text.
Outcome(f, resp, rawText) ==
  SelectOutcome(resp, rawText, ParseBody(resp.headers, rawText), Summary(f, resp, rawText))

\* The catch block reading the timeout of the latest render instead of the
\* one the invocation was started with.
CatchMessage_LatestTimeout(e, tmo) ==
  IF e.name = "AbortError"
  THEN <<"Request aborted after ">> \o NumberToString(timeoutMs) \o <<" ms">>
  ELSE e.message

\* The message of a catch block that does not look at the exception.
CatchMessage_AlwaysTimeout(e, tmo) ==
  <<"Request aborted after ">> \o NumberToString(tmo) \o <<" ms">>

\* The message of the catch block (line 192) for the closure's timeoutMs.
CatchMessage(e, tmo) ==
  IF e.name = "AbortError"
  THEN <<"Request aborted after ">> \o NumberToString(tmo) \o <<" ms">>
  ELSE e.message

\* The result of the catch block (line 193).
CatchResult(f, e) == [ok |-> FALSE, error |-> CatchMessage(e, f.timeoutMs)]

\* The catch block of the invocation with closure f for the exception e.
Caught(f, e) == [exit |-> "catch", result |-> CatchResult(f, e)]

(***************************************************************************)
(* TreeNode.  A node is named by its path: the keys from the root.  The    *)
(* mounted nodes are the root and the children of every open branch; each  *)
(* keeps the open flag of its useState.                                    *)
(***************************************************************************)
Range(f) == {f[i] : i \in DOMAIN f}

isArr(v) == v.t = "arr"
isObject(v) == v.t = "obj"
IsBranch(v) == isArr(v) \/ isObject(v)

\* entries (lines 71-73): the (key, value) pairs of a branch.
Entries(v) ==
  IF isArr(v) THEN [i \in 1..Len(v.v) |-> [k |-> NumberToString(i - 1), v |-> v.v[i]]]
  ELSE v.v

\* The value at a path below v.
RECURSIVE NodeAt(_, _)
NodeAt(v, path) ==
  IF path = <<>> THEN v
  ELSE LET e == CHOOSE e \in Range(Entries(v)) : e.k = Head(path) IN NodeAt(e.v, Tail(path))

\* Value (lines 95-108): the text shown for the value of a leaf row.
Value(data) ==
  CASE data.t = "str" -> <<"\"">> \o data.v \o <<"\"">>
    [] data.t = "num" -> NumberToString(data.v)
    [] data.t = "bool" -> IF data.v THEN WordTrue ELSE WordFalse
    [] data.t = "null" -> WordNull
    [] OTHER -> <<"o", "b", "j", "e", "c", "t">>

\* The initial value of open with the first level of children open too.
InitialOpen_FirstLevelOpen(collapsed, level) == IF collapsed THEN FALSE ELSE level < 2

\* The initial value of open without the collapsed prop.
InitialOpen_IgnoresCollapsed(collapsed, level) == level < 1

\* The initial value of open (line 54).
InitialOpen(collapsed, level) == IF collapsed THEN FALSE ELSE level < 1

\* The flag of the node at path, rendered with the props level and
\* collapsed: the one it holds if it is mounted in old, its initial value if
\* it is being mounted.
OpenAt(path, level, collapsed, old) ==
  IF path \in DOMAIN old THEN old[path] ELSE InitialOpen(collapsed, level)

\* The nodes rendered when a branch renders its children whether it is open
\* or not.
RECURSIVE Rendered_Eager(_, _, _, _, _)
Rendered_Eager(v, path, level, collapsed, old) ==
  {path} \cup
    IF IsBranch(v)
    THEN UNION {Rendered_Eager(e.v, Append(path, e.k), level + 1, FALSE, old) :
                  e \in Range(Entries(v))}
    ELSE {}

\* The nodes rendered for the value v at path (lines 62-92): the node and,
\* when it is an open branch, what its children render; a child gets
\* level + 1 and no collapsed prop.
RECURSIVE Rendered(_, _, _, _, _)
Rendered(v, path, level, collapsed, old) ==
  {path} \cup
    IF IsBranch(v) /\ OpenAt(path, level, collapsed, old)
    THEN UNION {Rendered(e.v, Append(path, e.k), level + 1, FALSE, old) :
                  e \in Range(Entries(v))}
    ELSE {}

\* The tree when the flag of a node outlives its unmounting: the nodes of
\* old stay, whether they are rendered or not.
TreeNode_KeepsFlags(data, level, collapsed, old) ==
  [p \in Rendered(data, <<>>, level, collapsed, old) \cup DOMAIN old |->
     OpenAt(p, level + Len(p), collapsed /\ p = <<>>, old)]

\* The tree after a render of <TreeNode data={data} level={level}
\* collapsed={collapsed} /> over the flags old (line 53).
TreeNode(data, level, collapsed, old) ==
  [p \in Rendered(data, <<>>, level, collapsed, old) |->
     OpenAt(p, level + Len(p), collapsed /\ p = <<>>, old)]

\* The props of the root TreeNode of the JSON Tree panel (line 301): level
\* takes its default 0 and collapsed is not passed.
PanelProps == [level |-> 0, collapsed |-> FALSE]

\* Nothing is mounted.
NoTree == <<>>

\* The JSON Tree panel (lines 298-303) for a result r.
TreePanel(r, old) ==
  IF r # Null /\ r.ok
  THEN TreeNode(r.data, PanelProps.level, PanelProps.collapsed, old)
  ELSE NoTree

\* The flags after toggle (line 56) on the node at path p.
Toggled(old, p) == [old EXCEPT ![p] = ~old[p]]

(***************************************************************************)
(* App.                                                                    *)
(***************************************************************************)
\* The button without the loading test: disabled only by a blank URL.
ButtonDisabled_IgnoresLoading == trim(url) = <<>>

\* The Analyze button's disabled attribute (line 228).
ButtonDisabled == loading \/ trim(url) = <<>>

Pending(f) == f.pc \in {"fetch", "text"}

\* The frame of an invocation at its first await (lines 123-135).
NewFrame ==
  [pc |-> "fetch", url |-> url, method |-> method, timeoutMs |-> timeoutMs,
   aborted |-> FALSE, timer |-> "armed", resp |-> Null, rawText |-> Null,
   exit |-> "none", published |-> 0]

\* The locals of an invocation that has returned are dead: when the next
\* invocation starts, the model keeps of it only its controller, its timer
\* and the number of results it published.
Retired(f) ==
  IF f.pc = "done"
  THEN [f EXCEPT !.url = <<>>, !.method = "GET", !.timeoutMs = 0, !.resp = Null,
                 !.rawText = Null, !.exit = "retired"]
  ELSE f

\* The frame after the invocation published and ran its finally block.
Returned(f, exit) == [f EXCEPT !.pc = "done", !.exit = exit, !.published = @ + 1]

Init ==
  /\ url = InitialUrl
  /\ loading = FALSE
  /\ result = Null
  /\ timeoutMs = 15000
  /\ method = "GET"
  /\ controllerRef = 0
  /\ inv = <<>>
  /\ writer = 0
  /\ tree = NoTree
  /\ props = PanelProps

\* onChange of the URL input (line 214).
SetUrl(v) ==
  /\ url' = v
  /\ UNCHANGED <<loading, result, timeoutMs, method, controllerRef, inv, writer, tree, props>>

\* onChange of the timeout input (line 225).
SetTimeoutMs(v) ==
  /\ timeoutMs' = ToNumber(Str(v)).v
  /\ UNCHANGED <<url, loading, result, method, controllerRef, inv, writer, tree, props>>

\* onChange of the method select (line 216).
SetMethod(v) ==
  /\ method' = v
  /\ UNCHANGED <<url, loading, result, timeoutMs, controllerRef, inv, writer, tree, props>>

\* analyze without controllerRef.current?.abort(): the controller of the
\* previous invocation is replaced and left alone.
analyze_NoAbort ==
  /\ inv' = Append([i \in 1..Len(inv) |-> Retired(inv[i])], NewFrame)
  /\ controllerRef' = Len(inv) + 1
  /\ result' = Null
  /\ writer' = 0
  /\ loading' = TRUE
  /\ tree' = NoTree
  /\ UNCHANGED <<url, timeoutMs, method, props>>

\* analyze without setResult(null): the result of the previous invocation,
\* and the tree rendered for it, stay until the next result is published.
analyze_KeepsResult ==
  LET prev == controllerRef
      cancelled == prev # 0 /\ Pending(inv[prev])
      frames == [i \in 1..Len(inv) |->
                   IF i = prev
                   THEN IF cancelled
                        THEN [Returned(inv[i], "catch") EXCEPT !.aborted = TRUE]
                        ELSE [Retired(inv[i]) EXCEPT !.aborted = TRUE]
                   ELSE Retired(inv[i])]
  IN /\ inv' = Append(frames, NewFrame)
     /\ controllerRef' = Len(inv) + 1
     /\ IF cancelled
        THEN /\ result' = CatchResult(inv[prev], AbortError)
             /\ writer' = prev
             /\ loading' = FALSE
             /\ tree' = NoTree
        ELSE /\ loading' = TRUE
             /\ UNCHANGED <<result, writer, tree>>
     /\ UNCHANGED <<url, timeoutMs, method, props>>

\* analyze up to its first await (lines 119-135), followed by the catch and
\* finally blocks of the previous invocation when controllerRef.current
\* ?.abort() rejected the promise it was awaiting.
analyze ==
  LET prev == controllerRef
      cancelled == prev # 0 /\ Pending(inv[prev])
      frames == [i \in 1..Len(inv) |->
                   IF i = prev
                   THEN IF cancelled
                        THEN [Returned(inv[i], "catch") EXCEPT !.aborted = TRUE]
                        ELSE [Retired(inv[i]) EXCEPT !.aborted = TRUE]
                   ELSE Retired(inv[i])]
  IN /\ inv' = Append(frames, NewFrame)
     /\ controllerRef' = Len(inv) + 1
     /\ IF cancelled
        THEN /\ result' = CatchResult(inv[prev], AbortError)
             /\ writer' = prev
             /\ loading' = FALSE
        ELSE /\ result' = Null
             /\ writer' = 0
             /\ loading' = TRUE
     /\ tree' = NoTree
     /\ UNCHANGED <<url, timeoutMs, method, props>>

\* onClick of the Analyze button (line 228).
ClickAnalyze ==
  /\ ~ButtonDisabled
  /\ Len(inv) < MaxInvocations
  /\ analyze

\* The invocation without its finally block: setLoading(false) only where
\* the try block ends normally.
Finish_NoFinally(i, f, o) ==
  /\ inv' = [inv EXCEPT ![i] = Returned(f, o.exit)]
  /\ result' = o.result
  /\ writer' = i
  /\ loading' = IF o.exit = "catch" THEN loading ELSE FALSE
  /\ tree' = TreePanel(o.result, tree)
  /\ UNCHANGED <<url, timeoutMs, method, controllerRef, props>>

\* The invocation i publishes o.result, leaves by o.exit and runs finally.
Finish(i, f, o) ==
  /\ inv' = [inv EXCEPT ![i] = Returned(f, o.exit)]
  /\ result' = o.result
  /\ writer' = i
  /\ loading' = FALSE
  /\ tree' = TreePanel(o.result, tree)
  /\ UNCHANGED <<url, timeoutMs, method, controllerRef, props>>

\* lines 137-190 without clearTimeout(t): the outcome is published and the
\* timer stays as it is.
Complete_KeepsTimer(i, resp, rawText) ==
  Finish(i, [inv[i] EXCEPT !.resp = resp, !.rawText = Str(rawText)],
         Outcome([inv[i] EXCEPT !.resp = resp, !.rawText = Str(rawText)], resp, rawText))

\* lines 137-190 once the body text is known: the timer is cleared, the
\* outcome published.
Complete(i, resp, rawText) ==
  LET f == [inv[i] EXCEPT !.resp = resp, !.rawText = Str(rawText),
                          !.timer = IF @ = "armed" THEN "cleared" ELSE @]
  IN Finish(i, f, Outcome(f, resp, rawText))

\* fetch resolves with resp: a HEAD invocation goes on with an empty body,
\* any other awaits resp.text().
FetchResolve(i, resp) ==
  /\ inv[i].pc = "fetch"
  /\ IF inv[i].method = "HEAD"
     THEN Complete(i, resp, <<>>)
     ELSE /\ inv' = [inv EXCEPT ![i].pc = "text", ![i].resp = resp]
          /\ UNCHANGED <<url, loading, result, timeoutMs, method, controllerRef, writer, tree, props>>

\* fetch rejects with a network error.
FetchReject(i, e) ==
  /\ inv[i].pc = "fetch"
  /\ Finish(i, inv[i], Caught(inv[i], e))

\* resp.text() resolves with the body.
TextResolve(i, rawText) ==
  /\ inv[i].pc = "text"
  /\ Complete(i, inv[i].resp, rawText)

\* resp.text() rejects with a network error.
TextReject(i, e) ==
  /\ inv[i].pc = "text"
  /\ Finish(i, inv[i], Caught(inv[i], e))

\* The timer of invocation i fires (line 128): controller.abort(), which
\* rejects the promise the invocation is awaiting, if any, with an
\* AbortError.
TimerFire(i) ==
  /\ inv[i].timer = "armed"
  /\ LET f == [inv[i] EXCEPT !.timer = "fired", !.aborted = TRUE] IN
     IF Pending(inv[i])
     THEN Finish(i, f, Caught(f, AbortError))
     ELSE /\ inv' = [inv EXCEPT ![i] = f]
          /\ UNCHANGED <<url, loading, result, timeoutMs, method, controllerRef, writer, tree, props>>

\* onClick of the twisty of the mounted branch at path p (lines 56, 78).
toggle(p) ==
  /\ p \in DOMAIN tree
  /\ IsBranch(NodeAt(result.data, p))
  /\ tree' = TreeNode(result.data, props.level, props.collapsed, Toggled(tree, p))
  /\ UNCHANGED <<url, loading, result, timeoutMs, method, controllerRef, inv, writer,
                 props>>

Invocations == 1..Len(inv)

Next ==
  \/ \E v \in UrlInputs : SetUrl(v)
  \/ \E v \in TimeoutInputs : SetTimeoutMs(v)
  \/ \E v \in Methods : SetMethod(v)
  \/ ClickAnalyze
  \/ \E i \in Invocations, resp \in AppResponses : FetchResolve(i, resp)
  \/ \E i \in Invocations, e \in NetworkErrors : FetchReject(i, e)
  \/ \E i \in Invocations, rawText \in AppBodies : TextResolve(i, rawText)
  \/ \E i \in Invocations, e \in NetworkErrors : TextReject(i, e)
  \/ \E i \in Invocations : TimerFire(i)
  \/ \E p \in DOMAIN tree : toggle(p)

Spec == Init /\ [][Next]_vars

\* The timer is a browser timer: once armed it fires unless it is cleared.
LiveSpec == Spec /\ WF_vars(\E i \in Invocations : TimerFire(i))

(***************************************************************************)
(* The pipeline of one invocation over every response of the model: the    *)
(* states right after the first click on Analyze, for either method, and   *)
(* then what the network and the timer do.                                 *)
(***************************************************************************)
InitPipeline ==
  /\ url = InitialUrl
  /\ loading = TRUE
  /\ result = Null
  /\ timeoutMs = 15000
  /\ method \in Methods
  /\ controllerRef = 1
  /\ inv = <<NewFrame>>
  /\ writer = 0
  /\ tree = NoTree
  /\ props = PanelProps

NextPipeline ==
  \/ \E i \in Invocations, resp \in AllResponses : FetchResolve(i, resp)
  \/ \E i \in Invocations, e \in NetworkErrors : FetchReject(i, e)
  \/ \E i \in Invocations, rawText \in Bodies : TextResolve(i, rawText)
  \/ \E i \in Invocations, e \in NetworkErrors : TextReject(i, e)
  \/ \E i \in Invocations : TimerFire(i)

SpecPipeline == InitPipeline /\ [][NextPipeline]_vars

(***************************************************************************)
(* TreeNode over its props: a tree document is shown and the root TreeNode *)
(* is rendered with any level and with or without collapsed; then the      *)
(* twisties are clicked.                                                   *)
(***************************************************************************)
Levels == {-1, 0, 1}

\* {"a":[[1],{"c":[2]}],"k":[]}
DocNested ==
  <<"{", "\"", "a", "\"", ":", "[", "[", "1", "]", ",", "{", "\"", "c", "\"", ":",
    "[", "2", "]", "}", "]", ",", "\"", "k", "\"", ":", "[", "]", "}">>

TreeBodies == {DocObject, DocArray, DocNested}

TreeResponse ==
  [status |-> 200, statusText |-> <<>>, headers |-> ("content-type" :> JsonType),
   elapsed |-> 7]

\* The frame of an invocation that read rawText from resp and returned.
Received(f, resp, rawText) ==
  Returned([f EXCEPT !.resp = resp, !.rawText = Str(rawText), !.timer = "cleared"],
           "success")

InitTreeNode ==
  /\ url = InitialUrl
  /\ loading = FALSE
  /\ timeoutMs = 15000
  /\ method = "GET"
  /\ controllerRef = 1
  /\ writer = 1
  /\ \E rawText \in TreeBodies :
       /\ inv = <<Received(NewFrame, TreeResponse, rawText)>>
       /\ result = Outcome(inv[1], TreeResponse, rawText).result
  /\ props \in [level : Levels, collapsed : BOOLEAN]
  /\ tree = TreeNode(result.data, props.level, props.collapsed, NoTree)

NextTreeNode == \E p \in DOMAIN tree : toggle(p)

SpecTreeNode == InitTreeNode /\ [][NextTreeNode]_vars

(***************************************************************************)
(* Properties.                                                             *)
(***************************************************************************)
\* The invocation started last.
Latest == Len(inv)

\* The result slot holds what invocation i published.
Holds(i) == i \in Invocations /\ writer = i

\* The text "Request aborted after {n} ms".
AbortedAfter(n) == <<"Request aborted after ">> \o NumberToString(n) \o <<" ms">>

\* C1: latest request wins.  In every state a non-null result was published
\* by the invocation started last, and in every step the only invocation
\* that publishes (its success, status, parse-error or catch path) is the
\* one started last.
LatestRequestWins ==
  /\ [](result # Null => writer = Latest)
  /\ [][\A i \in DOMAIN inv : inv'[i].published > inv[i].published => i = Len(inv')]_vars

\* A second invocation has published after the first one did.
LatestRequestWinsWitness ==
  /\ Len(inv) = 2
  /\ inv[1].published = 1
  /\ inv[2].published = 1
  /\ writer = 2
  /\ result # Null

\* An AnalyzedResult: the success variant with summary, headers, data and
\* rawText, or the failure variant with an error text and at most summary,
\* headers and rawText.
WellFormed(r) ==
  /\ r # Null
  /\ IF r.ok
     THEN DOMAIN r = {"ok", "summary", "headers", "data", "rawText"}
     ELSE /\ "error" \in DOMAIN r
          /\ DOMAIN r.error = 1..Len(r.error)
          /\ \A k \in DOMAIN r.error : r.error[k] \in STRING
          /\ DOMAIN r \subseteq {"ok", "summary", "headers", "error", "rawText"}

\* C2: every invocation resolves.  An invocation that is awaiting has
\* published nothing; one that has returned has published exactly once,
\* and when it is the one started last the slot holds its well-formed
\* result and loading is false; and, the timer being fair, every invocation
\* that starts returns.
EveryInvocationResolves ==
  /\ [](\A i \in Invocations :
          /\ Pending(inv[i]) => inv[i].published = 0
          /\ inv[i].pc = "done" => inv[i].published = 1
          /\ (inv[i].pc = "done" /\ i = Latest) =>
               (writer = i /\ WellFormed(result) /\ ~loading))
  /\ \A i \in 1..MaxInvocations :
       (Len(inv) >= i) ~> (Len(inv) >= i /\ inv[i].pc = "done")

\* The second invocation has returned through its catch block on a timeout
\* while the first returned with a success.
EveryInvocationResolvesWitness ==
  /\ Len(inv) = 2
  /\ inv[1].published = 1
  /\ inv[2].pc = "done"
  /\ inv[2].exit = "catch"
  /\ inv[2].timer = "fired"
  /\ ~loading
  /\ result = [ok |-> FALSE, error |-> AbortedAfter(inv[2].timeoutMs)]

\* C3: in the published result the summary and the headers are populated
\* if and only if fetch resolved with a response for that invocation.
SummaryIffResponseReceived ==
  \A i \in Invocations :
    Holds(i) =>
      /\ ("summary" \in DOMAIN result) <=> (inv[i].resp # Null)
      /\ ("headers" \in DOMAIN result) <=> (inv[i].resp # Null)

\* C4: when the timer of an invocation fires while the invocation is still
\* awaiting, the invocation publishes the failure whose error is "Request
\* aborted after {timeoutMs} ms" for the timeoutMs it was started with,
\* without summary or headers.
TimeoutIsReported ==
  [][\A i \in DOMAIN inv :
       (Pending(inv[i]) /\ inv[i].timer = "armed" /\ inv'[i].timer = "fired") =>
         /\ writer' = i
         /\ result' = [ok |-> FALSE, error |-> AbortedAfter(inv[i].timeoutMs)]]_vars

\* An invocation started with 2000 ms timed out after the timeout input was
\* changed to 0.
TimeoutIsReportedWitness ==
  \E i \in Invocations :
    /\ Holds(i)
    /\ inv[i].timer = "fired"
    /\ inv[i].exit = "catch"
    /\ inv[i].timeoutMs = 2000
    /\ timeoutMs = 0
    /\ result = [ok |-> FALSE,
                 error |-> <<"Request aborted after ", "2", "0", "0", "0", " ms">>]

\* The response of invocation i was received whole: headers and body text.
FullyReceived(i) == inv[i].resp # Null /\ inv[i].rawText # Null

\* C5: a fully received response with a status outside 200..299 gives the
\* failure "Request failed with status {status}" with summary (of that
\* status), headers and rawText, whatever the body and its parse.
StatusErrorIsReported ==
  \A i \in Invocations :
    (Holds(i) /\ FullyReceived(i)
       /\ (inv[i].resp.status < 200 \/ inv[i].resp.status > 299)) =>
      /\ ~result.ok
      /\ result.error = <<"Request failed with status ">> \o NumberToString(inv[i].resp.status)
      /\ DOMAIN result = {"ok", "summary", "headers", "error", "rawText"}
      /\ result.summary.status = inv[i].resp.status
      /\ result.headers = inv[i].resp.headers
      /\ result.rawText = inv[i].rawText.v

\* A 404 that declares JSON and carries an unparseable body reports the
\* status.
StatusErrorIsReportedWitness ==
  \E i \in Invocations :
    /\ Holds(i)
    /\ FullyReceived(i)
    /\ inv[i].resp.status = 404
    /\ "content-type" \in DOMAIN inv[i].resp.headers
    /\ inv[i].resp.headers["content-type"] = JsonType
    /\ inv[i].rawText.v = DocBroken
    /\ result.error = <<"Request failed with status ", "4", "0", "4">>
    /\ result.summary.status = 404

\* The text mentions "json" in any letter case.
MentionsJson(s) ==
  \E k \in 1..(Len(s) - 3) :
    /\ s[k] \in {"j", "J"}
    /\ s[k + 1] \in {"s", "S"}
    /\ s[k + 2] \in {"o", "O"}
    /\ s[k + 3] \in {"n", "N"}

\* The content-type header of the response is present and mentions "json".
JsonDeclared(resp) ==
  /\ "content-type" \in DOMAIN resp.headers
  /\ MentionsJson(resp.headers["content-type"])

\* Invocation i holds the slot with a fully received 2xx response whose
\* body is not empty.
TwoHundredWithBody(i) ==
  /\ Holds(i)
  /\ FullyReceived(i)
  /\ inv[i].resp.status \in 200..299
  /\ inv[i].rawText.v # <<>>

\* C6: a 2xx response that declares JSON (in any letter case) and whose
\* non-empty body does not parse gives the failure "Response is not valid
\* JSON: " followed by the parser's message, with summary, headers and
\* rawText.
ParseErrorIsReported ==
  \A i \in Invocations :
    (TwoHundredWithBody(i) /\ JsonDeclared(inv[i].resp)
       /\ ~JSONParse(inv[i].rawText.v).ok) =>
      /\ ~result.ok
      /\ result.error =
           <<"Response is not valid JSON: ">> \o JSONParse(inv[i].rawText.v).message
      /\ DOMAIN result = {"ok", "summary", "headers", "error", "rawText"}
      /\ result.summary.status = inv[i].resp.status
      /\ result.headers = inv[i].resp.headers
      /\ result.rawText = inv[i].rawText.v

\* A 200 of content type "a/JSON;" with the body {a was reported as invalid
\* JSON.
ParseErrorIsReportedWitness ==
  \E i \in Invocations :
    /\ TwoHundredWithBody(i)
    /\ inv[i].resp.headers = ("content-type" :> <<"a", "/", "J", "S", "O", "N", ";">>)
    /\ inv[i].rawText.v = DocBroken
    /\ ~result.ok
    /\ result.error = <<"Response is not valid JSON: ", "Unexpected token in JSON">>

\* C7: a 2xx response that does not declare JSON (or has no content type)
\* and whose non-empty body does not parse gives a success whose data is
\* the body text itself, with the same rawText and no error.
PlainTextIsData ==
  \A i \in Invocations :
    (TwoHundredWithBody(i) /\ ~JsonDeclared(inv[i].resp)
       /\ ~JSONParse(inv[i].rawText.v).ok) =>
      /\ result.ok
      /\ result.data = Str(inv[i].rawText.v)
      /\ result.rawText = inv[i].rawText.v
      /\ "error" \notin DOMAIN result

\* A 200 without content type and with the body a-euro succeeded with that
\* text as data.
PlainTextIsDataWitness ==
  \E i \in Invocations :
    /\ TwoHundredWithBody(i)
    /\ "content-type" \notin DOMAIN inv[i].resp.headers
    /\ inv[i].rawText.v = DocText
    /\ result.ok
    /\ result.data = [t |-> "str", v |-> <<"a", "€">>]

\* C8: a 2xx response whose non-empty body is valid JSON gives, whatever
\* its content type, a success whose data is the parsed body and whose
\* summary.status is the response status.
ValidJsonIsParsed ==
  \A i \in Invocations :
    (TwoHundredWithBody(i) /\ JSONParse(inv[i].rawText.v).ok) =>
      /\ result.ok
      /\ result.data = JSONParse(inv[i].rawText.v).val
      /\ result.summary.status = inv[i].resp.status

\* A 299 of content type "text" with the body {"a":1,"k":{"c":2}} succeeded
\* with the object of those members as data.
ValidJsonIsParsedWitness ==
  \E i \in Invocations :
    /\ TwoHundredWithBody(i)
    /\ inv[i].resp.status = 299
    /\ "content-type" \in DOMAIN inv[i].resp.headers
    /\ inv[i].resp.headers["content-type"] = <<"t", "e", "x", "t">>
    /\ inv[i].rawText.v = DocObject
    /\ result.ok
    /\ result.summary.status = 299
    /\ result.data =
         [t |-> "obj",
          v |-> <<[k |-> <<"a">>, v |-> [t |-> "num", v |-> 1]],
                  [k |-> <<"k">>,
                   v |-> [t |-> "obj",
                          v |-> <<[k |-> <<"c">>, v |-> [t |-> "num", v |-> 2]]>>]]>>]

\* The content-length header is present and its numeric value is > 0.
PositiveLength(headers) ==
  /\ "content-length" \in DOMAIN headers
  /\ headers["content-length"] # <<>>
  /\ \A k \in DOMAIN headers["content-length"] : headers["content-length"][k] \in Digits
  /\ DecimalValue(headers["content-length"]) > 0

\* C9: summary.sizeBytes is the numeric value of the content-length header
\* when that is present and > 0, whatever the body; otherwise the number of
\* UTF-8 bytes of a non-empty body; otherwise null.
SizeBytesRule ==
  \A i \in Invocations :
    (Holds(i) /\ FullyReceived(i)) =>
      result.summary.sizeBytes =
        IF PositiveLength(inv[i].resp.headers)
        THEN [t |-> "num", v |-> DecimalValue(inv[i].resp.headers["content-length"])]
        ELSE IF inv[i].rawText.v # <<>>
        THEN [t |-> "num", v |-> Utf8Length(inv[i].rawText.v)]
        ELSE Null

\* A response with content-length "1024" and the two-character, four-byte
\* body a-euro has sizeBytes 1024.
SizeBytesRuleWitness ==
  \E i \in Invocations :
    /\ Holds(i)
    /\ FullyReceived(i)
    /\ "content-length" \in DOMAIN inv[i].resp.headers
    /\ inv[i].resp.headers["content-length"] = <<"1", "0", "2", "4">>
    /\ inv[i].rawText.v = DocText
    /\ Utf8Length(inv[i].rawText.v) = 4
    /\ result.summary.sizeBytes = [t |-> "num", v |-> 1024]

\* The paths of the branch nodes of the value v, from path on.
RECURSIVE BranchPaths(_, _)
BranchPaths(v, path) ==
  IF IsBranch(v)
  THEN {path} \cup UNION {BranchPaths(e.v, Append(path, e.k)) : e \in Range(Entries(v))}
  ELSE {}

\* The expanded state of the node at path q under the flags t: the flag it
\* holds or, when it is not mounted, the one it is rendered with next.
ExpandedState(t, q) == IF q \in DOMAIN t THEN t[q] ELSE InitialOpen(FALSE, Len(q))

\* The step is a toggle of the mounted branch at p.
ToggleOf(p) ==
  /\ result' = result
  /\ p \in DOMAIN tree
  /\ p \in DOMAIN tree'
  /\ tree'[p] # tree[p]

\* C10: a toggle flips the flag of its own node and leaves the expanded
\* state of every other branch node of the tree (siblings, ancestors and
\* descendants) as it was.
ToggleLeavesOthersAlone ==
  [][\A p \in DOMAIN tree :
       ToggleOf(p) =>
         /\ tree'[p] = ~tree[p]
         /\ \A q \in BranchPaths(result.data, <<>>) \ {p} :
              ExpandedState(tree', q) = ExpandedState(tree, q)]_vars

\* The props the node at path p is rendered with: level + 1 per step down,
\* collapsed only at the root.
LevelOf(p) == props.level + Len(p)
CollapsedAt(p) == props.collapsed /\ p = <<>>

\* The branch at p is rendered for the first time in this step.
FirstRendered(p) ==
  /\ p \notin DOMAIN tree
  /\ p \in DOMAIN tree'
  /\ IsBranch(NodeAt(result'.data, p))

\* The flag the branch at p starts with is the one of the rule.
StartsByRule(t, p) == t[p] = (LevelOf(p) < 1 /\ ~CollapsedAt(p))

\* C11: a branch node that is rendered for the first time has its expanded
\* flag true when its depth is below 1 and it was not asked to start
\* collapsed, and false otherwise, whatever its depth.
FirstRenderRule ==
  /\ \A p \in DOMAIN tree : IsBranch(NodeAt(result.data, p)) => StartsByRule(tree, p)
  /\ [][\A p \in DOMAIN tree' : FirstRendered(p) => StartsByRule(tree', p)]_vars

\* A root asked to start collapsed at depth -1 was opened: its child branch
\* at depth 0 started open, its grandchild branch at depth 1 closed.
FirstRenderRuleWitness ==
  /\ props = [level |-> -1, collapsed |-> TRUE]
  /\ result.data = JSONParse(DocNested).val
  /\ <<<<"a">>, <<"1">>>> \in DOMAIN tree
  /\ tree[<<>>]
  /\ tree[<<<<"a">>>>]
  /\ ~tree[<<<<"a">>, <<"1">>>>]

\* The tree of a result is rendered in this step.
FreshTree == tree = NoTree /\ tree' # NoTree

\* C12 as stated: in a freshly rendered tree the root and every first-level
\* child branch start expanded, every deeper branch collapsed.
FreshTreeOpensTwoLevels ==
  [][FreshTree =>
       \A p \in DOMAIN tree' :
         IsBranch(NodeAt(result'.data, p)) => tree'[p] = (Len(p) <= 1)]_vars

\* C12: in a tree rendered without a start-collapsed request the root starts
\* expanded and every other branch, the first-level children included,
\* starts collapsed when it is first rendered.
FreshTreeOpensRootOnly ==
  [][\A p \in DOMAIN tree' : FirstRendered(p) => tree'[p] = (p = <<>>)]_vars

\* The tree of {"a":1,"k":{"c":2}}: the root open, its child k mounted and
\* collapsed.
FreshTreeOpensRootOnlyWitness ==
  /\ result # Null
  /\ result.ok
  /\ result.data = JSONParse(DocObject).val
  /\ DOMAIN tree = {<<>>, <<<<"a">>>>, <<<<"k">>>>}
  /\ tree[<<>>]
  /\ ~tree[<<<<"k">>>>]

\* JSON.parse gave r, which is the value v.
ParsesTo(r, v) == r.ok /\ r.val = v

\* The text of the leaf row at path p.
DisplayedLiteral(p) == Value(NodeAt(result.data, p))

\* C13: the literal displayed for every scalar leaf of the tree (string,
\* number, boolean, null) parses back as JSON to the value of the leaf.
LiteralRoundTrip ==
  \A p \in DOMAIN tree :
    ~IsBranch(NodeAt(result.data, p)) =>
      ParsesTo(JSONParse(DisplayedLiteral(p)), NodeAt(result.data, p))

\* An invocation of analyze starts in this step.
Starts == Len(inv') = Len(inv) + 1

\* Every mounted node of t holds the flag a first render gives it.
AllDefault(t) == \A p \in DOMAIN t : t[p] = InitialOpen(FALSE, Len(p))

\* C14: the expansion state does not survive a new analysis: starting
\* analyze clears the result and with it the tree, a tree is shown only for
\* the result it was rendered for, and the tree rendered for the next
\* successful result has every node at its default expanded state.
TreeStateNotCarriedOver ==
  /\ [](result = Null => tree = NoTree)
  /\ [][/\ Starts => (result' = Null /\ tree' = NoTree)
        /\ (tree # NoTree /\ tree' # NoTree) => result' = result
        /\ FreshTree => AllDefault(tree')]_vars

\* The second analysis shows the tree of its document, after the first
\* analysis had published a result of its own.
TreeStateNotCarriedOverWitness ==
  /\ Len(inv) = 2
  /\ inv[1].published = 1
  /\ writer = 2
  /\ result.ok
  /\ result.data = JSONParse(DocArray).val
  /\ DOMAIN tree = {<<>>, <<<<"0">>>>, <<<<"1">>>>}
  /\ AllDefault(tree)

\* Every node of the value v, branch or leaf, by its path.
RECURSIVE AllPaths(_, _)
AllPaths(v, path) ==
  {path} \cup
    IF IsBranch(v)
    THEN UNION {AllPaths(e.v, Append(path, e.k)) : e \in Range(Entries(v))}
    ELSE {}

\* The proper ancestors of the node at p.
Ancestors(p) == {SubSeq(p, 1, n) : n \in 0..(Len(p) - 1)}

\* The direct children of the node at p in the value v.
Children(v, p) == {Append(p, e.k) : e \in Range(Entries(NodeAt(v, p)))}

\* Every ancestor of the node at p is mounted in t and expanded.
AncestorsOpen(t, p) == \A a \in Ancestors(p) : a \in DOMAIN t /\ t[a]

\* C15: while a tree is shown, the row of a node is rendered exactly when
\* every ancestor of the node is expanded, so nothing below a collapsed
\* branch is mounted; and expanding a collapsed branch makes exactly its
\* direct children appear.
LazyVisibility ==
  /\ [](tree # NoTree =>
          \A p \in AllPaths(result.data, <<>>) :
            p \in DOMAIN tree <=> AncestorsOpen(tree, p))
  /\ [][\A p \in DOMAIN tree :
          (ToggleOf(p) /\ ~tree[p]) =>
            (DOMAIN tree') \ (DOMAIN tree) = Children(result.data, p)]_vars

\* {"a":1,"k":{"c":2}} after k was expanded: c is shown below k, next to a.
LazyVisibilityWitness ==
  /\ result # Null
  /\ result.ok
  /\ result.data = JSONParse(DocObject).val
  /\ DOMAIN tree = {<<>>, <<<<"a">>>>, <<<<"k">>>>, <<<<"k">>, <<"c">>>>}
  /\ tree[<<<<"k">>>>]

\* The invocation i publishes a result in this step.
Publishes(i) == inv'[i].published > inv[i].published

\* The result r is a failure whose error is "Request aborted after ... ms".
ReportsTimeout(r) ==
  /\ r # Null
  /\ ~r.ok
  /\ r.error # <<>>
  /\ r.error[1] = "Request aborted after "

\* C16: an invocation publishes the error "Request aborted after N ms" only
\* in the step in which its own timer fires while it is awaiting, with N
\* the timeout it was started with; a failure with any other cause does not
\* report that message.
TimeoutMessageOnlyOnTimeout ==
  [][\A i \in DOMAIN inv :
       (Publishes(i) /\ ReportsTimeout(result')) =>
         /\ Pending(inv[i])
         /\ inv[i].timer = "armed"
         /\ inv'[i].timer = "fired"
         /\ result'.error = AbortedAfter(inv[i].timeoutMs)]_vars

\* The first invocation failed on a network error, which left its timer
\* armed, and its controller was aborted by the second analyze; the second
\* invocation timed out and reports it.
TimeoutMessageOnlyOnTimeoutWitness ==
  /\ Len(inv) = 2
  /\ inv[1].timer = "armed"
  /\ inv[1].aborted
  /\ inv[1].published = 1
  /\ Holds(2)
  /\ inv[2].timer = "fired"
  /\ ReportsTimeout(result)

\* The invocation i is awaiting and its controller has not been aborted.
Active(i) == Pending(inv[i]) /\ ~inv[i].aborted

\* C17: at most one analysis is active.  Starting analyze aborts the
\* controller of the previous invocation and puts its own in controllerRef,
\* so in every state at most one invocation is awaiting with a controller
\* that has not been aborted, and controllerRef holds that invocation's.
AtMostOneActive ==
  /\ [](\A i, j \in Invocations : (Active(i) /\ Active(j)) => i = j)
  /\ [](\A i \in Invocations : Active(i) => controllerRef = i)
  /\ [][Starts =>
          /\ controllerRef' = Len(inv')
          /\ Pending(inv'[Len(inv')])
          /\ ~inv'[Len(inv')].aborted
          /\ controllerRef # 0 => inv'[controllerRef].aborted]_vars

\* The second invocation is awaiting and owns controllerRef; the controller
\* of the first, which had returned, was aborted when the second started.
AtMostOneActiveWitness ==
  /\ Len(inv) = 2
  /\ Active(2)
  /\ controllerRef = 2
  /\ inv[1].pc = "done"
  /\ inv[1].aborted

\* The exits of analyze through the end of its try block (lines 180-190).
NormalExits == {"success", "status", "parse"}

\* C18: an invocation whose response was read whole has its timer cleared
\* by the time its result is published, and a cleared timer stays cleared:
\* it never fires and the invocation never publishes again, so the outcome
\* of a completed invocation is never turned into an abort.
TimerDisarmedOnCompletion ==
  /\ [](\A i \in Invocations : inv[i].exit \in NormalExits => inv[i].timer = "cleared")
  /\ [][\A i \in DOMAIN inv :
          inv[i].timer = "cleared" => (inv'[i].timer = "cleared" /\ ~Publishes(i))]_vars

\* Both invocations completed normally: the timer of the first is still
\* cleared after the second analyze aborted its controller, and the second
\* shows its success.
TimerDisarmedOnCompletionWitness ==
  /\ Len(inv) = 2
  /\ inv[1].timer = "cleared"
  /\ inv[1].aborted
  /\ Holds(2)
  /\ inv[2].exit = "success"
  /\ inv[2].timer = "cleared"
  /\ ~inv[2].aborted
  /\ result.ok

\* The tree after a render of the panel over the flags t.
Rerender(t) == TreeNode(result.data, props.level, props.collapsed, t)

\* The tree after the twisty of the node at p was clicked twice.
DoubleToggle(t, p) == Rerender(Toggled(Rerender(Toggled(t, p)), p))

\* The mounted nodes of t below the node at p.
Descendants(t, p) ==
  {q \in DOMAIN t : Len(q) > Len(p) /\ SubSeq(q, 1, Len(p)) = p}

\* In t, below the branch at p, exactly the direct children are mounted and
\* each holds its initial flag.
ChildrenAtDefault(t, p) ==
  /\ Descendants(t, p) = Children(result.data, p)
  /\ \A q \in Descendants(t, p) : t[q] = InitialOpen(FALSE, Len(q))

\* C19: collapsing a branch discards the expansion state of everything
\* below it: the step unmounts every descendant, and after the branch is
\* toggled closed and open again only its direct children are shown, each
\* at its default (collapsed) state, whatever was expanded below before.
CollapseDiscardsDescendants ==
  /\ [][\A p \in DOMAIN tree :
          (ToggleOf(p) /\ tree[p]) => Descendants(tree', p) = {}]_vars
  /\ [](\A p \in DOMAIN tree :
          (IsBranch(NodeAt(result.data, p)) /\ tree[p]) =>
            ChildrenAtDefault(DoubleToggle(tree, p), p))

\* [[[1],[]],[10]] with its element 0 and the element 0 of that expanded:
\* toggling element 0 twice does not give the same tree back.
CollapseDiscardsDescendantsWitness ==
  /\ result # Null
  /\ result.ok
  /\ result.data = JSONParse(DocArray).val
  /\ <<<<"0">>, <<"0">>, <<"0">>>> \in DOMAIN tree
  /\ DoubleToggle(tree, <<<<"0">>>>) # tree
  /\ <<<<"0">>, <<"0">>>> \in DOMAIN DoubleToggle(tree, <<<<"0">>>>)
  /\ ~DoubleToggle(tree, <<<<"0">>>>)[<<<<"0">>, <<"0">>>>]

\* Some invocation is in flight: it is awaiting fetch or resp.text().
InFlight == \E i \in Invocations : Pending(inv[i])

\* C20: invocations started through the button never overlap.  An
\* invocation starts only when loading is false and the URL is not blank,
\* and sets loading; loading becomes false only in the step in which an
\* invocation publishes its result; so loading is true exactly while an
\* invocation is in flight, at most one is, and result is null from the
\* start of an invocation until it publishes.
UiNeverOverlaps ==
  /\ [](\A i, j \in Invocations : (Pending(inv[i]) /\ Pending(inv[j])) => i = j)
  /\ [](loading <=> InFlight)
  /\ [](InFlight => result = Null)
  /\ [][/\ Starts => (~loading /\ trim(url) # <<>> /\ loading' /\ result' = Null)
        /\ (loading /\ ~loading') =>
             \E i \in DOMAIN inv : Publishes(i) /\ writer' = i /\ result' # Null]_vars

\* The second invocation is awaiting its body, after the first published:
\* loading is set and nothing is shown.
UiNeverOverlapsWitness ==
  /\ Len(inv) = 2
  /\ inv[1].published = 1
  /\ inv[1].pc = "done"
  /\ inv[2].pc = "text"
  /\ loading
  /\ result = Null

====
